---- MODULE Spec2Model ----
(***************************************************************************)
(* Model of the Gomoku room server (the express + socket.io part of        *)
(* src/client/src/pages/Home.tsx, lines 277-652): the rooms map, the       *)
(* per-socket data, the socket.io room membership, and one action per      *)
(* HTTP / socket handler.                                                  *)
(***************************************************************************)
EXTENDS Integers, Sequences, FiniteSets

VARIABLES
    rooms,      \* the Map `rooms`: a function from the live room ids to room objects
    conn,       \* per socket: "connected" or "disconnected"
    sdata,      \* per socket: socket.data = [roomId, side]
    adapter,    \* io.sockets.adapter.rooms: room id -> set of sockets that joined it
    outbox,     \* the events emitted by the handler that ran last, in emission order
    gameOver,   \* per room id: payload of the game_over events emitted since the room
                \* was created or last reset ("none" when there was none)
    lastPlayer, \* per room id: seat number of the last piece_placed event emitted since the
                \* room was created or last reset (0 when there was none)
    joins,      \* number of join_room events handled so far (bounds the model)
    pboard, px, py, pwin, pres   \* inputs and result of the pure board functions

vars == <<rooms, conn, sdata, adapter, outbox, gameOver, lastPlayer, joins,
          pboard, px, py, pwin, pres>>

\* the variables no handler touches
mvars == <<joins, pboard, px, py, pwin, pres>>

----------------------------------------------------------------------------
(* Bounds of the model *)

\* place_piece coordinates are drawn from -1 .. MaxCoord in Spec
MaxCoord == 1
\* and from -1 .. MaxGameCoord in SpecGame
MaxGameCoord == 2
\* placements are accepted only while the boards hold fewer pieces in total
MaxPieces == 1
\* side length of the boards the pure board functions are applied to
PureSize == 3
\* largest number of stones on those boards (at most one of them a stone of seat 2)
PureStones == 3

\* number of join_room events handled in a behaviour
MaxJoins == 3

(* Program constants *)
DefaultPlayerCount == 2
DefaultWinCondition == 5
DefaultBoardSize == 15

(* Inputs *)
RoomIds == {"A", "B"}
Sockets == {"s1", "s2", "s3"}
Coords == (0 - 1) .. MaxCoord
GameCoords == (0 - 1) .. MaxGameCoord
\* the order in which the sockets joined room "A" before a behaviour of SpecGame starts
JoinOrder == <<"s1", "s2", "s3">>
\* ids POST /api/create-room generates; the other ids are only ever named by clients
CreateIds == {"A"}
\* request bodies of POST /api/create-room (the handler does not validate them)
PlayerCounts == {2, 3}
WinConditions == {2, 3}
BoardSizes == {2}
GameBoardSizes == {2}

Null == "null"
Undefined == "undefined"
Truthy(v) == v \notin {Null, Undefined}

----------------------------------------------------------------------------
(* Pure helpers *)

createEmptyBoard(size) ==
    [y \in 0 .. size - 1 |-> [x \in 0 .. size - 1 |-> 0]]

\* getOppositeTurn that ignores playerCount and always cycles through three seats
getOppositeTurnThree(turn, playerCount) ==
    IF turn = 1 THEN 2 ELSE IF turn = 2 THEN 3 ELSE 1

getOppositeTurn(turn, playerCount) ==
    IF playerCount = 2
    THEN (IF turn = 1 THEN 2 ELSE 1)
    ELSE (IF turn = 1 THEN 2 ELSE IF turn = 2 THEN 3 ELSE 1)

inBounds(x, y, size) ==
    x >= 0 /\ x < size /\ y >= 0 /\ y < size

\* board.length
Length(board) == Cardinality(DOMAIN board)

\* the while loops of checkWin: number of consecutive cells equal to target
\* starting at (nx, ny) and stepping by (dx, dy)
RECURSIVE CountDir(_, _, _, _, _, _)
CountDir(board, nx, ny, dx, dy, target) ==
    IF inBounds(nx, ny, Length(board)) /\ board[ny][nx] = target
    THEN 1 + CountDir(board, nx + dx, ny + dy, dx, dy, target)
    ELSE 0

dirs == << <<1, 0>>, <<0, 1>>, <<1, 1>>, <<1, 0 - 1>> >>

\* checkWin with an exact-length test in place of the threshold
checkWinExact(board, x, y, winCondition) ==
    LET target == board[y][x] IN
    IF target = 0 THEN FALSE
    ELSE \E i \in 1 .. Len(dirs) :
            LET dx == dirs[i][1]
                dy == dirs[i][2]
                count == 1 + CountDir(board, x + dx, y + dy, dx, dy, target)
                           + CountDir(board, x - dx, y - dy, 0 - dx, 0 - dy, target)
            IN count = winCondition

checkWin(board, x, y, winCondition) ==
    LET target == board[y][x] IN
    IF target = 0 THEN FALSE
    ELSE \E i \in 1 .. Len(dirs) :
            LET dx == dirs[i][1]
                dy == dirs[i][2]
                count == 1 + CountDir(board, x + dx, y + dy, dx, dy, target)
                           + CountDir(board, x - dx, y - dy, 0 - dx, 0 - dy, target)
            IN count >= winCondition

\* checkDraw that returns after scanning the first row only
checkDrawFirstRow(board) ==
    ~ \E x \in DOMAIN board[0] : board[0][x] = 0

checkDraw(board) ==
    ~ \E y \in DOMAIN board : \E x \in DOMAIN board[y] : board[y][x] = 0

\* number of pieces on a board (used only to bound the model)
Pieces(board) ==
    Cardinality({c \in (DOMAIN board) \X (DOMAIN board) : board[c[1]][c[2]] # 0})

----------------------------------------------------------------------------
(* Rooms, payloads and emissions *)

Settings(playerCount, winCondition, boardSize) ==
    [playerCount |-> playerCount, winCondition |-> winCondition, boardSize |-> boardSize]

\* NewRoom with White to move first
NewRoomWhiteFirst(playerCount, winCondition, boardSize) ==
    [players  |-> [black |-> Null, white |-> Null,
                   third |-> IF playerCount = 3 THEN Null ELSE Undefined],
     board    |-> createEmptyBoard(boardSize),
     turn     |-> 2,
     settings |-> Settings(playerCount, winCondition, boardSize)]

\* the room object stored by POST /api/create-room
NewRoom(playerCount, winCondition, boardSize) ==
    [players  |-> [black |-> Null, white |-> Null,
                   third |-> IF playerCount = 3 THEN Null ELSE Undefined],
     board    |-> createEmptyBoard(boardSize),
     turn     |-> 1,
     settings |-> Settings(playerCount, winCondition, boardSize)]

\* the room object join_room stores for an unknown room id (players has no `third` key)
DefaultRoom ==
    [players  |-> [black |-> Null, white |-> Null, third |-> Undefined],
     board    |-> createEmptyBoard(DefaultBoardSize),
     turn     |-> 1,
     settings |-> Settings(DefaultPlayerCount, DefaultWinCondition, DefaultBoardSize)]

\* the room_state payload built by join_room, place_piece, reset_game and disconnect;
\* a key whose value is undefined is absent from the payload
RoomState(room) ==
    [players  |-> IF room.settings.playerCount = 3
                  THEN [black |-> Truthy(room.players.black),
                        white |-> Truthy(room.players.white),
                        third |-> Truthy(room.players.third)]
                  ELSE [black |-> Truthy(room.players.black),
                        white |-> Truthy(room.players.white)],
     turn     |-> room.turn,
     settings |-> room.settings]

\* the room_state payload built by get_room_state
RoomStateShort(room) ==
    [players  |-> [black |-> Truthy(room.players.black),
                   white |-> Truthy(room.players.white)],
     turn     |-> room.turn]

Emit(to, event, data) == [to |-> to, event |-> event, data |-> data]

SideName(turn) == IF turn = 1 THEN "black" ELSE IF turn = 2 THEN "white" ELSE "green"

PlayerNum(side) == IF side = "black" THEN 1 ELSE IF side = "white" THEN 2 ELSE 3

IsPlayingSide(side) == side \in {"black", "white", "green"}

----------------------------------------------------------------------------
(* Initial state: the server has started and accepted the connections of Sockets
   (io.on("connection") only registers the handlers below); no room exists *)

GInit ==
    /\ rooms = [r \in {} |-> DefaultRoom]
    /\ conn = [s \in Sockets |-> "connected"]
    /\ sdata = [s \in Sockets |-> [roomId |-> Undefined, side |-> Undefined]]
    /\ adapter = [r \in RoomIds |-> {}]
    /\ outbox = << >>
    /\ gameOver = [r \in RoomIds |-> "none"]
    /\ lastPlayer = [r \in RoomIds |-> 0]
    /\ joins = 0

PIdle ==
    /\ pboard = createEmptyBoard(0)
    /\ px = 0
    /\ py = 0
    /\ pwin = 0
    /\ pres = "none"

Init == GInit /\ PIdle

----------------------------------------------------------------------------
(* Handlers *)

\* create-room without the retry loop: the generated id may be the id of a live room
CreateRoomNoRetry(roomId, playerCount, winCondition, boardSize) ==
    /\ rooms' = [r \in DOMAIN rooms \cup {roomId} |->
                    IF r = roomId THEN NewRoom(playerCount, winCondition, boardSize)
                    ELSE rooms[r]]
    /\ outbox' = << >>
    /\ gameOver' = [gameOver EXCEPT ![roomId] = "none"]
    /\ lastPlayer' = [lastPlayer EXCEPT ![roomId] = 0]
    /\ UNCHANGED <<conn, sdata, adapter>>

\* app.post("/api/create-room"): roomId is a fresh id (the nanoid retry loop)
CreateRoom(roomId, playerCount, winCondition, boardSize) ==
    /\ roomId \notin DOMAIN rooms
    /\ rooms' = [r \in DOMAIN rooms \cup {roomId} |->
                    IF r = roomId THEN NewRoom(playerCount, winCondition, boardSize)
                    ELSE rooms[r]]
    /\ outbox' = << >>
    /\ gameOver' = [gameOver EXCEPT ![roomId] = "none"]
    /\ lastPlayer' = [lastPlayer EXCEPT ![roomId] = 0]
    /\ UNCHANGED <<conn, sdata, adapter>>

\* join_room with a falsy roomId
JoinNoRoom(s) ==
    /\ conn[s] = "connected"
    /\ outbox' = << >>
    /\ UNCHANGED <<rooms, conn, sdata, adapter, gameOver, lastPlayer>>

\* JoinSide without the playerCount test on the third seat
JoinSideAnyCount(room) ==
    IF ~ Truthy(room.players.black) THEN "black"
    ELSE IF ~ Truthy(room.players.white) THEN "white"
    ELSE IF ~ Truthy(room.players.third) THEN "green"
    ELSE "spectator"

\* JoinSide that gives the white seat without testing whether it is free
JoinSideNoWhiteCheck(room) ==
    IF ~ Truthy(room.players.black) THEN "black" ELSE "white"

\* the seat join_room gives in `room`
JoinSide(room) ==
    IF ~ Truthy(room.players.black) THEN "black"
    ELSE IF ~ Truthy(room.players.white) THEN "white"
    ELSE IF room.settings.playerCount = 3 /\ ~ Truthy(room.players.third) THEN "green"
    ELSE "spectator"

\* room.players after join_room assigned `side` to socket s
JoinPlayers(room, side, s) ==
    IF side = "black" THEN [room.players EXCEPT !.black = s]
    ELSE IF side = "white" THEN [room.players EXCEPT !.white = s]
    ELSE IF side = "green" THEN [room.players EXCEPT !.third = s]
    ELSE room.players

\* join_room that broadcasts room_state before it acknowledges the join
JoinRoomBroadcastFirst(s, roomId) ==
    /\ conn[s] = "connected"
    /\ LET room0 == IF roomId \in DOMAIN rooms THEN rooms[roomId] ELSE DefaultRoom
           side  == JoinSide(room0)
           room  == [room0 EXCEPT !.players = JoinPlayers(room0, side, s)]
           members == adapter[roomId] \cup {s}
       IN /\ rooms' = [r \in DOMAIN rooms \cup {roomId} |->
                          IF r = roomId THEN room ELSE rooms[r]]
          /\ adapter' = [adapter EXCEPT ![roomId] = members]
          /\ sdata' = [sdata EXCEPT ![s] = [roomId |-> roomId, side |-> side]]
          /\ outbox' = << Emit(members, "room_state", RoomState(room)),
                          Emit({s}, "joined",
                               [roomId |-> roomId, side |-> side, turn |-> room.turn,
                                board |-> room.board, settings |-> room.settings]) >>
    /\ UNCHANGED <<conn, gameOver, lastPlayer>>

JoinRoom(s, roomId) ==
    /\ conn[s] = "connected"
    /\ LET room0 == IF roomId \in DOMAIN rooms THEN rooms[roomId] ELSE DefaultRoom
           side  == JoinSide(room0)
           room  == [room0 EXCEPT !.players = JoinPlayers(room0, side, s)]
           members == adapter[roomId] \cup {s}
       IN /\ rooms' = [r \in DOMAIN rooms \cup {roomId} |->
                          IF r = roomId THEN room ELSE rooms[r]]
          /\ adapter' = [adapter EXCEPT ![roomId] = members]
          /\ sdata' = [sdata EXCEPT ![s] = [roomId |-> roomId, side |-> side]]
          /\ outbox' = << Emit({s}, "joined",
                               [roomId |-> roomId, side |-> side, turn |-> room.turn,
                                board |-> room.board, settings |-> room.settings]),
                          Emit(members, "room_state", RoomState(room)) >>
    /\ UNCHANGED <<conn, gameOver, lastPlayer>>

\* get_room_state that stores a default room under an unknown room id
GetRoomStateCreates(s, roomId) ==
    /\ conn[s] = "connected"
    /\ rooms' = [r \in DOMAIN rooms \cup {roomId} |->
                    IF r \in DOMAIN rooms THEN rooms[r] ELSE DefaultRoom]
    /\ outbox' = << Emit({s}, "room_state", RoomStateShort(rooms'[roomId])) >>
    /\ UNCHANGED <<conn, sdata, adapter, gameOver, lastPlayer>>

GetRoomState(s, roomId) ==
    /\ conn[s] = "connected"
    /\ outbox' = IF roomId \notin DOMAIN rooms THEN << >>
                 ELSE << Emit({s}, "room_state", RoomStateShort(rooms[roomId])) >>
    /\ UNCHANGED <<rooms, conn, sdata, adapter, gameOver, lastPlayer>>

\* PlaceAccepted without the test of whose turn it is
PlaceAcceptedAnyTurn(s, roomId, x, y) ==
    /\ roomId \in DOMAIN rooms
    /\ IsPlayingSide(sdata[s].side)
    /\ inBounds(x, y, rooms[roomId].settings.boardSize)
    /\ rooms[roomId].board[y][x] = 0

\* PlaceAccepted without the test that the target cell is empty
PlaceAcceptedAnyCell(s, roomId, x, y) ==
    /\ roomId \in DOMAIN rooms
    /\ IsPlayingSide(sdata[s].side)
    /\ rooms[roomId].turn = PlayerNum(sdata[s].side)
    /\ inBounds(x, y, rooms[roomId].settings.boardSize)

\* place_piece. The early returns of the handler leave everything unchanged and emit
\* nothing; PlaceAccepted is the conjunction of the conditions that let it go on.
PlaceAccepted(s, roomId, x, y) ==
    /\ roomId \in DOMAIN rooms
    /\ IsPlayingSide(sdata[s].side)
    /\ rooms[roomId].turn = PlayerNum(sdata[s].side)
    /\ inBounds(x, y, rooms[roomId].settings.boardSize)
    /\ rooms[roomId].board[y][x] = 0

\* place_piece that tests for a draw before it tests for a win
PlacePieceDrawFirst(s, roomId, x, y) ==
    /\ conn[s] = "connected"
    /\ IF ~ PlaceAccepted(s, roomId, x, y)
       THEN /\ outbox' = << >>
            /\ UNCHANGED <<rooms, gameOver, lastPlayer>>
       ELSE LET room == rooms[roomId]
                side == sdata[s].side
                playerNum == PlayerNum(side)
                board == [room.board EXCEPT ![y][x] = playerNum]
                placed == Emit(adapter[roomId], "piece_placed",
                               [x |-> x, y |-> y, player |-> side])
            IN /\ lastPlayer' = [lastPlayer EXCEPT ![roomId] = playerNum]
               /\ IF checkDraw(board)
                  THEN /\ rooms' = [rooms EXCEPT ![roomId].board = board]
                       /\ outbox' = << placed,
                                       Emit(adapter[roomId], "game_over",
                                            [winner |-> Null, draw |-> TRUE]) >>
                       /\ gameOver' = [gameOver EXCEPT ![roomId] = "draw"]
                  ELSE IF checkWin(board, x, y, room.settings.winCondition)
                  THEN /\ rooms' = [rooms EXCEPT ![roomId].board = board]
                       /\ outbox' = << placed,
                                       Emit(adapter[roomId], "game_over",
                                            [winner |-> side]) >>
                       /\ gameOver' = [gameOver EXCEPT ![roomId] = side]
                  ELSE LET turn == getOppositeTurn(room.turn, room.settings.playerCount)
                           room2 == [room EXCEPT !.board = board, !.turn = turn]
                       IN /\ rooms' = [rooms EXCEPT ![roomId] = room2]
                          /\ outbox' = << placed,
                                          Emit(adapter[roomId], "turn_changed",
                                               [turn |-> SideName(turn)]),
                                          Emit(adapter[roomId], "room_state",
                                               RoomState(room2)) >>
                          /\ UNCHANGED gameOver
    /\ UNCHANGED <<conn, sdata, adapter>>

PlacePiece(s, roomId, x, y) ==
    /\ conn[s] = "connected"
    /\ IF ~ PlaceAccepted(s, roomId, x, y)
       THEN /\ outbox' = << >>
            /\ UNCHANGED <<rooms, gameOver, lastPlayer>>
       ELSE LET room == rooms[roomId]
                side == sdata[s].side
                playerNum == PlayerNum(side)
                board == [room.board EXCEPT ![y][x] = playerNum]
                placed == Emit(adapter[roomId], "piece_placed",
                               [x |-> x, y |-> y, player |-> side])
            IN /\ lastPlayer' = [lastPlayer EXCEPT ![roomId] = playerNum]
               /\ IF checkWin(board, x, y, room.settings.winCondition)
                  THEN /\ rooms' = [rooms EXCEPT ![roomId].board = board]
                       /\ outbox' = << placed,
                                       Emit(adapter[roomId], "game_over",
                                            [winner |-> side]) >>
                       /\ gameOver' = [gameOver EXCEPT ![roomId] = side]
                  ELSE IF checkDraw(board)
                  THEN /\ rooms' = [rooms EXCEPT ![roomId].board = board]
                       /\ outbox' = << placed,
                                       Emit(adapter[roomId], "game_over",
                                            [winner |-> Null, draw |-> TRUE]) >>
                       /\ gameOver' = [gameOver EXCEPT ![roomId] = "draw"]
                  ELSE LET turn == getOppositeTurn(room.turn, room.settings.playerCount)
                           room2 == [room EXCEPT !.board = board, !.turn = turn]
                       IN /\ rooms' = [rooms EXCEPT ![roomId] = room2]
                          /\ outbox' = << placed,
                                          Emit(adapter[roomId], "turn_changed",
                                               [turn |-> SideName(turn)]),
                                          Emit(adapter[roomId], "room_state",
                                               RoomState(room2)) >>
                          /\ UNCHANGED gameOver
    /\ UNCHANGED <<conn, sdata, adapter>>

\* An exception thrown by a handler is caught nowhere (the file installs no
\* uncaughtException handler and the handlers have no try): the Node process ends,
\* and with it the rooms map and every connection.
Crash ==
    /\ rooms' = [r \in {} |-> DefaultRoom]
    /\ conn' = [s \in Sockets |-> "disconnected"]
    /\ sdata' = [s \in Sockets |-> [roomId |-> Undefined, side |-> Undefined]]
    /\ adapter' = [r \in RoomIds |-> {}]
    /\ outbox' = << >>
    /\ gameOver' = [r \in RoomIds |-> "none"]
    /\ lastPlayer' = [r \in RoomIds |-> 0]

\* place_piece with the coordinates x2 / 2 and y2 / 2, which need not be integers.
\* For a number that is not an integer, inBounds compares as for any number;
\* room.board[y] is undefined for a non-integer y, so room.board[y][x] throws a
\* TypeError; for an integer y and a non-integer x, room.board[y][x] is undefined,
\* which is !== 0, and the handler returns.
PlacePieceHalves(s, roomId, x2, y2) ==
    IF x2 % 2 = 0 /\ y2 % 2 = 0
    THEN PlacePiece(s, roomId, x2 \div 2, y2 \div 2)
    ELSE /\ conn[s] = "connected"
         /\ IF /\ roomId \in DOMAIN rooms
               /\ IsPlayingSide(sdata[s].side)
               /\ rooms[roomId].turn = PlayerNum(sdata[s].side)
               /\ inBounds(x2, y2, 2 * rooms[roomId].settings.boardSize)
               /\ y2 % 2 # 0
            THEN Crash
            ELSE /\ outbox' = << >>
                 /\ UNCHANGED <<rooms, conn, sdata, adapter, gameOver, lastPlayer>>

\* reset_game that acts only for a sender holding a playing seat of the room
ResetGameBySeated(s, roomId) ==
    /\ conn[s] = "connected"
    /\ IF \/ roomId \notin DOMAIN rooms
          \/ sdata[s].roomId # roomId
          \/ ~ IsPlayingSide(sdata[s].side)
       THEN /\ outbox' = << >>
            /\ UNCHANGED <<rooms, gameOver, lastPlayer>>
       ELSE LET room == [rooms[roomId] EXCEPT
                            !.board = createEmptyBoard(rooms[roomId].settings.boardSize),
                            !.turn = 1]
            IN /\ rooms' = [rooms EXCEPT ![roomId] = room]
               /\ outbox' = << Emit(adapter[roomId], "reset_done",
                                    [board |-> room.board, turn |-> "black"]),
                               Emit(adapter[roomId], "room_state", RoomState(room)) >>
               /\ gameOver' = [gameOver EXCEPT ![roomId] = "none"]
               /\ lastPlayer' = [lastPlayer EXCEPT ![roomId] = 0]
    /\ UNCHANGED <<conn, sdata, adapter>>

\* reset_game that resets every room of the registry
ResetGameAllRooms(s, roomId) ==
    /\ conn[s] = "connected"
    /\ IF roomId \notin DOMAIN rooms
       THEN /\ outbox' = << >>
            /\ UNCHANGED <<rooms, gameOver, lastPlayer>>
       ELSE LET Fresh(room) ==
                    [room EXCEPT !.board = createEmptyBoard(room.settings.boardSize),
                                 !.turn = 1]
                room == Fresh(rooms[roomId])
            IN /\ rooms' = [r \in DOMAIN rooms |-> Fresh(rooms[r])]
               /\ outbox' = << Emit(adapter[roomId], "reset_done",
                                    [board |-> room.board, turn |-> "black"]),
                               Emit(adapter[roomId], "room_state", RoomState(room)) >>
               /\ gameOver' = [gameOver EXCEPT ![roomId] = "none"]
               /\ lastPlayer' = [lastPlayer EXCEPT ![roomId] = 0]
    /\ UNCHANGED <<conn, sdata, adapter>>

\* reset_game that also puts the default settings back
ResetGameDefaults(s, roomId) ==
    /\ conn[s] = "connected"
    /\ IF roomId \notin DOMAIN rooms
       THEN /\ outbox' = << >>
            /\ UNCHANGED <<rooms, gameOver, lastPlayer>>
       ELSE LET room == [rooms[roomId] EXCEPT
                            !.board = createEmptyBoard(DefaultBoardSize),
                            !.turn = 1,
                            !.settings = [@ EXCEPT !.winCondition = DefaultWinCondition,
                                                   !.boardSize = DefaultBoardSize]]
            IN /\ rooms' = [rooms EXCEPT ![roomId] = room]
               /\ outbox' = << Emit(adapter[roomId], "reset_done",
                                    [board |-> room.board, turn |-> "black"]),
                               Emit(adapter[roomId], "room_state", RoomState(room)) >>
               /\ gameOver' = [gameOver EXCEPT ![roomId] = "none"]
               /\ lastPlayer' = [lastPlayer EXCEPT ![roomId] = 0]
    /\ UNCHANGED <<conn, sdata, adapter>>

\* reset_game that leaves room.turn as it is
ResetGameKeepTurn(s, roomId) ==
    /\ conn[s] = "connected"
    /\ IF roomId \notin DOMAIN rooms
       THEN /\ outbox' = << >>
            /\ UNCHANGED <<rooms, gameOver, lastPlayer>>
       ELSE LET room == [rooms[roomId] EXCEPT
                            !.board = createEmptyBoard(rooms[roomId].settings.boardSize)]
            IN /\ rooms' = [rooms EXCEPT ![roomId] = room]
               /\ outbox' = << Emit(adapter[roomId], "reset_done",
                                    [board |-> room.board, turn |-> "black"]),
                               Emit(adapter[roomId], "room_state", RoomState(room)) >>
               /\ gameOver' = [gameOver EXCEPT ![roomId] = "none"]
               /\ lastPlayer' = [lastPlayer EXCEPT ![roomId] = 0]
    /\ UNCHANGED <<conn, sdata, adapter>>

ResetGame(s, roomId) ==
    /\ conn[s] = "connected"
    /\ IF roomId \notin DOMAIN rooms
       THEN /\ outbox' = << >>
            /\ UNCHANGED <<rooms, gameOver, lastPlayer>>
       ELSE LET room == [rooms[roomId] EXCEPT
                            !.board = createEmptyBoard(rooms[roomId].settings.boardSize),
                            !.turn = 1]
            IN /\ rooms' = [rooms EXCEPT ![roomId] = room]
               /\ outbox' = << Emit(adapter[roomId], "reset_done",
                                    [board |-> room.board, turn |-> "black"]),
                               Emit(adapter[roomId], "room_state", RoomState(room)) >>
               /\ gameOver' = [gameOver EXCEPT ![roomId] = "none"]
               /\ lastPlayer' = [lastPlayer EXCEPT ![roomId] = 0]
    /\ UNCHANGED <<conn, sdata, adapter>>

\* room.players after the disconnect handler cleared the seats held by socket s
LeavePlayers(players, s) ==
    [black |-> IF players.black = s THEN Null ELSE players.black,
     white |-> IF players.white = s THEN Null ELSE players.white,
     third |-> IF players.third = s THEN Null ELSE players.third]

\* disconnect that deletes the room without looking at the sockets left in it
DisconnectAlwaysDelete(s) ==
    /\ conn[s] = "connected"
    /\ conn' = [conn EXCEPT ![s] = "disconnected"]
    /\ adapter' = [r \in RoomIds |-> adapter[r] \ {s}]
    /\ sdata' = [sdata EXCEPT ![s] = [roomId |-> Undefined, side |-> Undefined]]
    /\ LET roomId == sdata[s].roomId IN
       IF roomId = Undefined \/ roomId \notin DOMAIN rooms
       THEN /\ outbox' = << >>
            /\ UNCHANGED <<rooms, gameOver, lastPlayer>>
       ELSE LET room == [rooms[roomId] EXCEPT
                            !.players = LeavePlayers(rooms[roomId].players, s)]
            IN /\ outbox' = << Emit(adapter'[roomId], "room_state", RoomState(room)) >>
               /\ rooms' = [r \in DOMAIN rooms \ {roomId} |-> rooms[r]]
               /\ gameOver' = [gameOver EXCEPT ![roomId] = "none"]
               /\ lastPlayer' = [lastPlayer EXCEPT ![roomId] = 0]

\* disconnect. socket.io has already removed the socket from every room it joined
\* when the handler runs, so the adapter no longer lists it; the socket object and
\* its data are discarded afterwards.
Disconnect(s) ==
    /\ conn[s] = "connected"
    /\ conn' = [conn EXCEPT ![s] = "disconnected"]
    /\ adapter' = [r \in RoomIds |-> adapter[r] \ {s}]
    /\ sdata' = [sdata EXCEPT ![s] = [roomId |-> Undefined, side |-> Undefined]]
    /\ LET roomId == sdata[s].roomId IN
       IF roomId = Undefined \/ roomId \notin DOMAIN rooms
       THEN /\ outbox' = << >>
            /\ UNCHANGED <<rooms, gameOver, lastPlayer>>
       ELSE LET room == [rooms[roomId] EXCEPT
                            !.players = LeavePlayers(rooms[roomId].players, s)]
            IN /\ outbox' = << Emit(adapter'[roomId], "room_state", RoomState(room)) >>
               /\ IF adapter'[roomId] = {}
                  THEN /\ rooms' = [r \in DOMAIN rooms \ {roomId} |-> rooms[r]]
                       /\ gameOver' = [gameOver EXCEPT ![roomId] = "none"]
                       /\ lastPlayer' = [lastPlayer EXCEPT ![roomId] = 0]
                  ELSE /\ rooms' = [rooms EXCEPT ![roomId] = room]
                       /\ UNCHANGED <<gameOver, lastPlayer>>

----------------------------------------------------------------------------
(* The server: every handler, on the inputs the model draws *)

TotalPieces ==
    LET RECURSIVE Sum(_)
        Sum(R) == IF R = {} THEN 0
                  ELSE LET r == CHOOSE q \in R : TRUE
                       IN Pieces(rooms[r].board) + Sum(R \ {r})
    IN Sum(DOMAIN rooms)

\* the model stops accepting placements once MaxPieces pieces lie on the boards
PieceBudget(s, roomId, x, y) ==
    PlaceAccepted(s, roomId, x, y) => TotalPieces < MaxPieces

Next ==
    \/ /\ \E r \in CreateIds, pc \in PlayerCounts, bs \in BoardSizes :
             CreateRoom(r, pc, DefaultWinCondition, bs)
       /\ UNCHANGED mvars
    \/ /\ \E s \in Sockets : JoinNoRoom(s)
       /\ UNCHANGED mvars
    \/ /\ joins < MaxJoins
       /\ \E s \in Sockets, r \in RoomIds : JoinRoom(s, r)
       /\ joins' = joins + 1
       /\ UNCHANGED <<pboard, px, py, pwin, pres>>
    \/ /\ \E s \in Sockets, r \in RoomIds : GetRoomState(s, r)
       /\ UNCHANGED mvars
    \/ /\ \E s \in Sockets, r \in RoomIds, x \in Coords, y \in Coords :
             PieceBudget(s, r, x, y) /\ PlacePiece(s, r, x, y)
       /\ UNCHANGED mvars
    \/ /\ \E s \in Sockets, r \in RoomIds : ResetGame(s, r)
       /\ UNCHANGED mvars
    \/ /\ \E s \in Sockets : Disconnect(s)
       /\ UNCHANGED mvars

Spec == Init /\ [][Next]_vars

----------------------------------------------------------------------------
(* Rooms and seats only: the handlers that create rooms, bind connections to seats
   and release them *)

SeatsNext ==
    \/ /\ \E r \in CreateIds, pc \in PlayerCounts, bs \in BoardSizes :
             CreateRoom(r, pc, DefaultWinCondition, bs)
       /\ UNCHANGED mvars
    \/ /\ \E s \in Sockets : JoinNoRoom(s)
       /\ UNCHANGED mvars
    \/ /\ joins < MaxJoins
       /\ \E s \in Sockets, r \in RoomIds : JoinRoom(s, r)
       /\ joins' = joins + 1
       /\ UNCHANGED <<pboard, px, py, pwin, pres>>
    \/ /\ \E s \in Sockets : Disconnect(s)
       /\ UNCHANGED mvars

SpecSeats == Init /\ [][SeatsNext]_vars

----------------------------------------------------------------------------
(* Rooms created from request bodies whose boardSize is any integer: the handler
   stores what the body carries *)

PayloadBoardSizes == {0 - 1, 2}

CreateNext ==
    \/ /\ \E r \in CreateIds, pc \in PlayerCounts, bs \in PayloadBoardSizes :
             CreateRoom(r, pc, DefaultWinCondition, bs)
       /\ UNCHANGED mvars
    \/ /\ joins < MaxJoins
       /\ \E s \in Sockets, r \in RoomIds : JoinRoom(s, r)
       /\ joins' = joins + 1
       /\ UNCHANGED <<pboard, px, py, pwin, pres>>
    \/ /\ \E s \in Sockets, r \in RoomIds : ResetGame(s, r)
       /\ UNCHANGED mvars
    \/ /\ \E s \in Sockets : Disconnect(s)
       /\ UNCHANGED mvars

SpecCreate == Init /\ [][CreateNext]_vars

----------------------------------------------------------------------------
(* One game: room "A" was created by POST /api/create-room and the first k sockets
   of JoinOrder joined it, in that order; from there on the clients send
   place_piece and reset_game events. *)

RECURSIVE SetupRoom(_, _)
SetupRoom(room0, k) ==
    IF k = 0 THEN room0
    ELSE LET room == SetupRoom(room0, k - 1)
         IN [room EXCEPT !.players = JoinPlayers(room, JoinSide(room), JoinOrder[k])]

SetupSide(room0, i) == JoinSide(SetupRoom(room0, i - 1))

GameSetup(pc, wc, bs, k) ==
    LET room0 == NewRoom(pc, wc, bs)
        room  == SetupRoom(room0, k)
        members == {JoinOrder[i] : i \in 1 .. k}
    IN /\ rooms = [r \in {"A"} |-> room]
       /\ conn = [s \in Sockets |-> "connected"]
       /\ sdata = [s \in Sockets |->
                     IF s \in members
                     THEN [roomId |-> "A",
                           side |-> SetupSide(room0, CHOOSE i \in 1 .. k : JoinOrder[i] = s)]
                     ELSE [roomId |-> Undefined, side |-> Undefined]]
       /\ adapter = [r \in RoomIds |-> IF r = "A" THEN members ELSE {}]
       /\ outbox = IF k = 0 THEN << >>
                   ELSE << Emit({JoinOrder[k]}, "joined",
                                [roomId |-> "A", side |-> SetupSide(room0, k),
                                 turn |-> room.turn, board |-> room.board,
                                 settings |-> room.settings]),
                           Emit(members, "room_state", RoomState(room)) >>
       /\ gameOver = [r \in RoomIds |-> "none"]
       /\ lastPlayer = [r \in RoomIds |-> 0]
       /\ joins = k

GameInit ==
    /\ \E pc \in PlayerCounts, wc \in WinConditions, bs \in GameBoardSizes,
          k \in 0 .. Len(JoinOrder) : GameSetup(pc, wc, bs, k)
    /\ PIdle

GameNext ==
    \/ /\ \E s \in Sockets, r \in RoomIds, x \in GameCoords, y \in GameCoords :
             PlacePiece(s, r, x, y)
       /\ UNCHANGED mvars
    \/ /\ \E s \in Sockets, r \in RoomIds : ResetGame(s, r)
       /\ UNCHANGED mvars

SpecGame == GameInit /\ [][GameNext]_vars

----------------------------------------------------------------------------
(* One game with departures: as SpecGame, and the connections may also disconnect *)

PlayNext ==
    \/ /\ \E s \in Sockets, r \in RoomIds, x \in GameCoords, y \in GameCoords :
             PlacePiece(s, r, x, y)
       /\ UNCHANGED mvars
    \/ /\ \E s \in Sockets, r \in RoomIds : ResetGame(s, r)
       /\ UNCHANGED mvars
    \/ /\ \E s \in Sockets : Disconnect(s)
       /\ UNCHANGED mvars

SpecPlay == GameInit /\ [][PlayNext]_vars

----------------------------------------------------------------------------
(* One game with arrivals and departures: room "A" was created by POST
   /api/create-room and the first two sockets of JoinOrder joined it; from there on
   the connections send place_piece and reset_game events, join_room and
   get_room_state events for the room of the game, and disconnect *)

VisitInit ==
    /\ \E pc \in PlayerCounts, wc \in WinConditions, bs \in GameBoardSizes :
          GameSetup(pc, wc, bs, 2)
    /\ PIdle

VisitNext ==
    \/ /\ \E s \in Sockets, r \in RoomIds, x \in GameCoords, y \in GameCoords :
             PlacePiece(s, r, x, y)
       /\ UNCHANGED mvars
    \/ /\ \E s \in Sockets, r \in RoomIds : ResetGame(s, r)
       /\ UNCHANGED mvars
    \/ /\ \E s \in Sockets : Disconnect(s)
       /\ UNCHANGED mvars
    \/ /\ joins < MaxJoins
       /\ \E s \in Sockets : JoinRoom(s, "A")
       /\ joins' = joins + 1
       /\ UNCHANGED <<pboard, px, py, pwin, pres>>
    \/ /\ \E s \in Sockets, r \in RoomIds : GetRoomState(s, r)
       /\ UNCHANGED mvars

SpecVisit == VisitInit /\ [][VisitNext]_vars

----------------------------------------------------------------------------
(* One game with coordinates of any kind: as SpecGame, and the place_piece events
   carry coordinates that are multiples of one half *)

\* twice the coordinates of a place_piece event: -1/2, 0, 1/2, ..., MaxGameCoord
HalfCoords == (0 - 1) .. (2 * MaxGameCoord)

HalvesNext ==
    \/ /\ \E s \in Sockets, r \in RoomIds, x2 \in HalfCoords, y2 \in HalfCoords :
             PlacePieceHalves(s, r, x2, y2)
       /\ UNCHANGED mvars
    \/ /\ \E s \in Sockets, r \in RoomIds : ResetGame(s, r)
       /\ UNCHANGED mvars

SpecHalves == GameInit /\ [][HalvesNext]_vars

----------------------------------------------------------------------------
(* One game played on: as SpecGame without reset_game, and the connection whose seat
   is to move does not stay away for ever: whenever some place_piece event would be
   accepted in room "A", one is eventually sent. The handler itself never waits. *)

\* a place_piece event naming room "A" that the handler accepts
Move ==
    /\ \E s \in Sockets, x \in GameCoords, y \in GameCoords :
          PlaceAccepted(s, "A", x, y) /\ PlacePiece(s, "A", x, y)
    /\ UNCHANGED mvars

LiveNext ==
    /\ \E s \in Sockets, r \in RoomIds, x \in GameCoords, y \in GameCoords :
          PlacePiece(s, r, x, y)
    /\ UNCHANGED mvars

SpecLive == GameInit /\ [][LiveNext]_vars /\ WF_vars(Move)

----------------------------------------------------------------------------
(* Two games: rooms "A" and "B" were both created by POST /api/create-room for three
   players; the first two sockets of JoinOrder joined "A", then all the sockets of
   JoinOrder joined "B". From there on the clients send place_piece and reset_game
   events. *)

CrossSetup(wc, bs) ==
    LET room0 == NewRoom(3, wc, bs)
        roomA == SetupRoom(room0, 2)
        roomB == SetupRoom(room0, Len(JoinOrder))
        k == Len(JoinOrder)
        all == {JoinOrder[i] : i \in 1 .. k}
    IN /\ rooms = [r \in {"A", "B"} |-> IF r = "A" THEN roomA ELSE roomB]
       /\ conn = [s \in Sockets |-> "connected"]
       /\ sdata = [s \in Sockets |->
                     [roomId |-> "B",
                      side |-> SetupSide(room0, CHOOSE i \in 1 .. k : JoinOrder[i] = s)]]
       /\ adapter = [r \in RoomIds |->
                       IF r = "A" THEN {JoinOrder[1], JoinOrder[2]} ELSE all]
       /\ outbox = << Emit({JoinOrder[k]}, "joined",
                            [roomId |-> "B", side |-> SetupSide(room0, k),
                             turn |-> roomB.turn, board |-> roomB.board,
                             settings |-> roomB.settings]),
                       Emit(all, "room_state", RoomState(roomB)) >>
       /\ gameOver = [r \in RoomIds |-> "none"]
       /\ lastPlayer = [r \in RoomIds |-> 0]
       /\ joins = 2 + k

CrossInit ==
    /\ \E wc \in WinConditions, bs \in GameBoardSizes : CrossSetup(wc, bs)
    /\ PIdle

SpecCross == CrossInit /\ [][GameNext]_vars

----------------------------------------------------------------------------
(* The pure board functions, applied to boards drawn from a bounded set *)

PureCells == (0 .. PureSize - 1) \X (0 .. PureSize - 1)

\* the board with a stone of seat 2 on cell `other` (if it is in `stones`) and stones
\* of seat 1 on the other cells of `stones`; a cell is <<x, y>>
StonesBoard(stones, other) ==
    [y \in 0 .. PureSize - 1 |-> [x \in 0 .. PureSize - 1 |->
        IF <<x, y>> \notin stones THEN 0
        ELSE IF <<x, y>> = other THEN 2 ELSE 1]]

PureBoards ==
    {StonesBoard(stones, other) :
        stones \in {S \in SUBSET PureCells : Cardinality(S) <= PureStones},
        other \in PureCells \cup {<<0 - 1, 0 - 1>>}}

PureInit ==
    /\ GInit
    /\ pboard \in PureBoards
    /\ px = 0
    /\ py = 0
    /\ pwin = 0
    /\ pres = "none"

\* one call checkWin(pboard, x, y, winCondition)
CallCheckWin(x, y, winCondition) ==
    /\ pres = "none"
    /\ px' = x
    /\ py' = y
    /\ pwin' = winCondition
    /\ pres' = IF checkWin(pboard, x, y, winCondition) THEN "true" ELSE "false"
    /\ UNCHANGED <<pboard, rooms, conn, sdata, adapter, outbox, gameOver, lastPlayer, joins>>

PureNext ==
    \E c \in PureCells, w \in 2 .. PureSize : CallCheckWin(c[1], c[2], w)

SpecPure == PureInit /\ [][PureNext]_vars

----------------------------------------------------------------------------
(* Claims about the pure board functions *)

LineDirections == {<<1, 0>>, <<0, 1>>, <<1, 1>>, <<1, 0 - 1>>}

InGrid(board, x, y) == y \in DOMAIN board /\ x \in DOMAIN board[y]

\* some line through (x, y) holds at least `len` consecutive cells, (x, y) among them,
\* that all lie in the grid and hold the value of (x, y)
RunThrough(board, x, y, len) ==
    \E d \in LineDirections :
       \E back \in 0 .. Cardinality(DOMAIN board), ahead \in 0 .. Cardinality(DOMAIN board) :
          /\ back + ahead + 1 >= len
          /\ \A t \in (0 - back) .. ahead :
                /\ InGrid(board, x + t * d[1], y + t * d[2])
                /\ board[y + t * d[2]][x + t * d[1]] = board[y][x]

\* C8: on a non-empty cell, checkWin returns true exactly when one of the four lines
\* through the cell holds a run of the cell's seat, through the cell, of length at
\* least winCondition (longer runs included).
C8_CheckWinIffRun ==
    (pres # "none" /\ pboard[py][px] # 0)
        => ((pres = "true") <=> RunThrough(pboard, px, py, pwin))

\* checkWin returned true for a run strictly longer than winCondition
C8_Witness ==
    /\ pres = "true"
    /\ pboard[py][px] # 0
    /\ RunThrough(pboard, px, py, pwin + 1)

----------------------------------------------------------------------------
(* Claims about one game, checked under SpecGame *)

\* the seat number a connection's side stands for (0: spectator or no seat)
SeatOf(side) ==
    CASE side = "black" -> 1
      [] side = "white" -> 2
      [] side = "green" -> 3
      [] OTHER -> 0

Cells(room) == (0 .. room.settings.boardSize - 1) \X (0 .. room.settings.boardSize - 1)

\* the cells <<x, y>> on which two boards of room r differ
Changed(r) == {c \in Cells(rooms[r]) : rooms'[r].board[c[2]][c[1]] # rooms[r].board[c[2]][c[1]]}

\* the step emits a game_over event
EmitsGameOver == \E i \in 1 .. Len(outbox') : outbox'[i].event = "game_over"

\* C1: a place event puts a piece on the board exactly when (x, y) is inside the
\* grid, the cell is Empty and the sender's seat is the room's turn; it then changes
\* exactly the cell (x, y), from Empty to the sender's seat.
C1_PlaceIff ==
    [][\A s \in Sockets, r \in DOMAIN rooms, x \in GameCoords, y \in GameCoords :
          PlacePiece(s, r, x, y) =>
             LET room == rooms[r]
                 legal == /\ x \in 0 .. room.settings.boardSize - 1
                          /\ y \in 0 .. room.settings.boardSize - 1
                          /\ room.board[y][x] = 0
                          /\ SeatOf(sdata[s].side) = room.turn
             IN /\ (Changed(r) # {}) <=> legal
                /\ legal => /\ Changed(r) = {<<x, y>>}
                            /\ rooms'[r].board[y][x] = SeatOf(sdata[s].side)
                            /\ SeatOf(sdata[s].side) # 0]_vars

\* a placement was accepted: White's piece lies on the board next to Black's
C1_Witness ==
    /\ "A" \in DOMAIN rooms
    /\ Len(outbox) > 0
    /\ outbox[1].event = "piece_placed"
    /\ outbox[1].data.player = "white"
    /\ rooms["A"].board[outbox[1].data.y][outbox[1].data.x] = 2
    /\ Pieces(rooms["A"].board) = 2

\* C2: a place event sent to a room whose game has ended (game_over was emitted and
\* no reset happened since) changes neither the board, the turn nor the declared
\* outcome, and emits nothing.
C2_GameOverRejects ==
    [][\A s \in Sockets, r \in DOMAIN rooms, x \in GameCoords, y \in GameCoords :
          (gameOver[r] # "none" /\ PlacePiece(s, r, x, y)) =>
             /\ rooms' = rooms
             /\ gameOver' = gameOver
             /\ outbox' = << >>]_vars

\* C6: until a reset, the first placement in a room is Black's and every later one
\* is made by the seat that follows the previous placer in the order Black, White
\* (, Third).
C6_Alternation ==
    [][\A r \in DOMAIN rooms :
          (r \in DOMAIN rooms' /\ Changed(r) # {} /\ lastPlayer'[r] # 0) =>
             lastPlayer'[r] =
                IF lastPlayer[r] = 0 THEN 1
                ELSE IF rooms[r].settings.playerCount = 2
                     THEN (IF lastPlayer[r] = 1 THEN 2 ELSE 1)
                     ELSE (lastPlayer[r] % 3) + 1]_vars

\* C7: once game_over has been emitted for a room, no further game_over is emitted
\* for it and the declared outcome stays, until a reset.
C7_OutcomeOnce ==
    [][\A r \in DOMAIN rooms :
          (gameOver[r] # "none" /\ r \in DOMAIN rooms'
             /\ ~ \E s \in Sockets : ResetGame(s, r)) =>
                /\ gameOver'[r] = gameOver[r]
                /\ ~ EmitsGameOver]_vars

\* the board of `room` has no Empty cell
Full(room) == \A c \in Cells(room) : room.board[c[2]][c[1]] # 0

\* the handler that ran last placed a piece (SpecGame places in room "A" only)
JustPlaced == Len(outbox) > 0 /\ outbox[1].event = "piece_placed"

DeclaredDraw ==
    /\ Len(outbox) > 1
    /\ outbox[2].event = "game_over"
    /\ outbox[2].data.winner = Null

DeclaredWin(side) ==
    /\ Len(outbox) > 1
    /\ outbox[2].event = "game_over"
    /\ outbox[2].data.winner = side

\* C9: checkDraw is true exactly on the boards without an Empty cell, and a
\* placement is reported as a draw exactly when it fills the board without
\* completing a run of winCondition; one that fills the board and completes such a
\* run is reported as a win of the placing seat.
C9_DrawOnlyWithoutWin ==
    "A" \in DOMAIN rooms =>
       LET room == rooms["A"] IN
       /\ checkDraw(room.board) <=> Full(room)
       /\ JustPlaced =>
             LET run == RunThrough(room.board, outbox[1].data.x, outbox[1].data.y,
                                   room.settings.winCondition)
             IN /\ DeclaredDraw <=> (Full(room) /\ ~ run)
                /\ (Full(room) /\ run) => DeclaredWin(outbox[1].data.player)

\* the placement that filled the last empty cell completed a run and was reported
\* as a win
C9_Witness ==
    /\ "A" \in DOMAIN rooms
    /\ JustPlaced
    /\ Full(rooms["A"])
    /\ RunThrough(rooms["A"].board, outbox[1].data.x, outbox[1].data.y,
                  rooms["A"].settings.winCondition)
    /\ DeclaredWin(outbox[1].data.player)

\* C10: the turn of a 2-player room is Black or White, the turn of a 3-player room
\* is Black, White or Third.
C10_TurnInPlayerCount ==
    \A r \in DOMAIN rooms :
       /\ rooms[r].settings.playerCount = 2 => rooms[r].turn \in {1, 2}
       /\ rooms[r].settings.playerCount = 3 => rooms[r].turn \in {1, 2, 3}

\* in a 2-player room the turn came back to Black after White's placement
C10_Witness ==
    \E r \in DOMAIN rooms :
       /\ rooms[r].settings.playerCount = 2
       /\ lastPlayer[r] = 2
       /\ rooms[r].turn = 1

----------------------------------------------------------------------------
(* Claims about seats and connections, checked under Spec and SpecSeats *)

\* the occupant recorded for seat number t of `room`
Holder(room, t) ==
    IF t = 1 THEN room.players.black
    ELSE IF t = 2 THEN room.players.white
    ELSE room.players.third

\* C3: a place event naming room r changes r's board only if the sender is recorded
\* in r's occupants as holding the seat whose turn it is.
C3_OnlyOccupantPlaces ==
    [][\A s \in Sockets, r \in DOMAIN rooms :
          (/\ r \in DOMAIN rooms'
           /\ rooms'[r].board # rooms[r].board
           /\ \E x \in Coords, y \in Coords : PlacePiece(s, r, x, y))
             => Holder(rooms[r], rooms[r].turn) = s]_vars

\* C4: the seat join_room gave a connection stays the connection's seat for as long
\* as the connection lives.
C4_SeatNeverChanges ==
    [][\A s \in Sockets :
          (sdata[s].side # Undefined /\ conn'[s] = "connected")
             => sdata'[s].side = sdata[s].side]_vars

\* the playing seats of a room, in join priority
SeatKeys(playerCount) ==
    IF playerCount = 3 THEN <<"black", "white", "third">> ELSE <<"black", "white">>

\* index of the first playing seat of `room` no connection occupies, 0 if none
FirstFree(room) ==
    LET keys == SeatKeys(room.settings.playerCount)
        free == {i \in 1 .. Len(keys) : room.players[keys[i]] \notin Sockets}
    IN IF free = {} THEN 0 ELSE CHOOSE i \in free : \A j \in free : i <= j

\* C5: join_room gives the joining connection the first unoccupied playing seat in
\* the order Black, White, Third (Third only in a 3-player room); when all of them
\* are occupied the connection becomes a spectator and no occupant slot changes.
C5_JoinFirstFree ==
    [][\A s \in Sockets, r \in RoomIds :
          JoinRoom(s, r) =>
             LET room0 == IF r \in DOMAIN rooms THEN rooms[r] ELSE DefaultRoom
                 keys == SeatKeys(room0.settings.playerCount)
                 i == FirstFree(room0)
             IN IF i = 0
                THEN /\ sdata'[s].side = "spectator"
                     /\ rooms'[r].players = room0.players
                ELSE /\ sdata'[s].side = SideName(i)
                     /\ rooms'[r].players = [room0.players EXCEPT ![keys[i]] = s]]_vars

\* a connection joined a room whose playing seats were all occupied
C5_Witness ==
    \E s \in Sockets :
       /\ Len(outbox) > 0
       /\ outbox[1].event = "joined"
       /\ outbox[1].to = {s}
       /\ sdata[s].side = "spectator"
       /\ \E r \in DOMAIN rooms : sdata[s].roomId = r /\ FirstFree(rooms[r]) = 0

\* the live connections whose socket.data names room r and seat number t
BoundTo(r, t) ==
    {s \in Sockets : /\ conn[s] = "connected"
                      /\ sdata[s].roomId = r
                      /\ SeatOf(sdata[s].side) = t}

\* C11: no playing seat of a room is held by two connections: at most one live
\* connection is bound to a given room and playing seat, and that connection is the
\* occupant the room records for the seat.
C11_OneOccupantPerSeat ==
    \A r \in RoomIds, t \in 1 .. 3 :
       /\ Cardinality(BoundTo(r, t)) <= 1
       /\ \A s \in BoundTo(r, t) : r \in DOMAIN rooms /\ Holder(rooms[r], t) = s

\* Black and White of a room are held by two connections and a third connection
\* that joined the same room was left without a playing seat
C11_Witness ==
    \E r \in DOMAIN rooms :
       /\ BoundTo(r, 1) # {}
       /\ BoundTo(r, 2) # {}
       /\ BoundTo(r, 1) # BoundTo(r, 2)
       /\ \E s \in Sockets : conn[s] = "connected" /\ sdata[s].roomId = r
                                /\ sdata[s].side = "spectator"

\* the occupant slots <<room id, seat number>> that record connection s
SlotsOf(s) ==
    {p \in (DOMAIN rooms) \X (1 .. 3) : Holder(rooms[p[1]], p[2]) = s}

\* C12: no live connection is recorded in more than one occupant slot, neither twice
\* in one room nor in two different rooms.
C12_OneSlotPerConnection ==
    \A s \in Sockets : conn[s] = "connected" => Cardinality(SlotsOf(s)) <= 1

----------------------------------------------------------------------------
(* Claims about the state view *)

\* the canonical view of a room: occupied / free for every configured playing seat,
\* the turn and the settings
CanonicalView(room) ==
    LET keys == SeatKeys(room.settings.playerCount)
    IN [players  |-> [k \in {keys[i] : i \in 1 .. Len(keys)} |->
                         Truthy(room.players[k])],
        turn     |-> room.turn,
        settings |-> room.settings]

\* the step sends the canonical view of room r, as it is after the step, to every
\* socket that is in r after the step
Delivered(r) ==
    \E i \in 1 .. Len(outbox') :
       /\ outbox'[i].event = "room_state"
       /\ outbox'[i].to = adapter'[r]
       /\ outbox'[i].data = CanonicalView(rooms'[r])

\* C13: every step that joins a connection to a room, or changes a room that stays
\* in the registry (a placement, winning and drawing ones included, a reset, a
\* leave), delivers the room's canonical view to all the connections in the room.
C13_ViewAfterMutation ==
    [][\A r \in DOMAIN rooms' :
          (\/ r \in DOMAIN rooms /\ rooms'[r] # rooms[r]
           \/ \E s \in Sockets : JoinRoom(s, r))
             => Delivered(r)]_vars

\* the place event (s, r, x, y) is one the rules reject: the sender has no playing
\* seat, it is not the sender's turn, the cell is outside the grid or it is occupied
Rejected(s, r, x, y) ==
    LET room == rooms[r]
        size == room.settings.boardSize
    IN \/ SeatOf(sdata[s].side) = 0
       \/ SeatOf(sdata[s].side) # room.turn
       \/ x \notin 0 .. size - 1
       \/ y \notin 0 .. size - 1
       \/ (x \in 0 .. size - 1 /\ y \in 0 .. size - 1 /\ room.board[y][x] # 0)

\* C14: a rejected place event changes no room (board, turn, occupants, settings),
\* no connection binding and no room membership, and sends no event.
C14_RejectedChangesNothing ==
    [][\A s \in Sockets, r \in DOMAIN rooms, x \in GameCoords, y \in GameCoords :
          (Rejected(s, r, x, y) /\ PlacePiece(s, r, x, y)) =>
             /\ rooms' = rooms
             /\ sdata' = sdata
             /\ adapter' = adapter
             /\ gameOver' = gameOver
             /\ outbox' = << >>]_vars

\* a place event was rejected in a game under way: nothing was sent and the pieces
\* placed before are still on the board
C14_Witness ==
    /\ "A" \in DOMAIN rooms
    /\ outbox = << >>
    /\ Pieces(rooms["A"].board) > 0
    /\ lastPlayer["A"] # 0

\* C15: get_room_state for an existing room changes no room and sends the requesting
\* connection, and nobody else, the room's canonical view.
C15_RefreshSendsView ==
    [][\A s \in Sockets, r \in DOMAIN rooms :
          GetRoomState(s, r) =>
             /\ rooms' = rooms
             /\ outbox' = << Emit({s}, "room_state", CanonicalView(rooms[r])) >>]_vars

----------------------------------------------------------------------------
(* Claims about reset *)

\* the board is a size x size grid of Empty cells
AllEmpty(board, size) ==
    /\ DOMAIN board = 0 .. size - 1
    /\ \A y \in DOMAIN board :
          /\ DOMAIN board[y] = 0 .. size - 1
          /\ \A x \in DOMAIN board[y] : board[y][x] = 0

\* C16: reset_game on an existing room replaces its board by an all-Empty board of
\* the configured boardSize and sets the turn to Black; the room's settings and
\* occupants, and every other room, stay as they were.
C16_ResetFrame ==
    [][\A s \in Sockets, r \in DOMAIN rooms :
          ResetGame(s, r) =>
             /\ DOMAIN rooms' = DOMAIN rooms
             /\ AllEmpty(rooms'[r].board, rooms[r].settings.boardSize)
             /\ rooms'[r].turn = 1
             /\ rooms'[r].settings = rooms[r].settings
             /\ rooms'[r].players = rooms[r].players
             /\ \A q \in DOMAIN rooms \ {r} : rooms'[q] = rooms[q]]_vars

\* a reset was done in a room one of whose players had left
C16_Witness ==
    /\ "A" \in DOMAIN rooms
    /\ Len(outbox) > 0
    /\ outbox[1].event = "reset_done"
    /\ AllEmpty(rooms["A"].board, rooms["A"].settings.boardSize)
    /\ rooms["A"].turn = 1
    /\ rooms["A"].players.white = Null
    /\ \E s \in Sockets : conn[s] = "disconnected"

\* every playing seat the settings of `room` require records an occupant
AllSeated(room) ==
    \A t \in 1 .. room.settings.playerCount : Holder(room, t) \in Sockets

\* if the seats of room r are all occupied, a place event of the connection recorded
\* as Black is accepted on every cell of the grid
BlackCanPlace(r) ==
    AllSeated(rooms[r]) =>
       LET b == rooms[r].players.black
           size == rooms[r].settings.boardSize
       IN \A x \in 0 .. size - 1, y \in 0 .. size - 1 :
             conn[b] = "connected" /\ PlaceAccepted(b, r, x, y)

\* C17: right after a reset of a room whose required seats are all occupied, the
\* connection occupying Black can place on any cell of the grid.
C17_PlayableAfterReset ==
    [][\A s \in Sockets, r \in DOMAIN rooms :
          ResetGame(s, r) => BlackCanPlace(r)']_vars

----------------------------------------------------------------------------
(* Claims about leaving *)

\* C18: when a connection disconnects, no room that stays in the registry records it
\* as an occupant any more, and the next join to a room where it held a playing seat
\* is given a playing seat.
C18_LeaveFreesSeat ==
    [][\A s \in Sockets :
          Disconnect(s) =>
             \A r \in DOMAIN rooms \cap DOMAIN rooms', t \in 1 .. 3 :
                Holder(rooms[r], t) = s =>
                   /\ Holder(rooms'[r], t) = Null
                   /\ JoinSide(rooms'[r]) # "spectator"]_vars

\* C19: when a disconnect takes the last socket out of a room the connection had
\* joined, the room is removed from the registry.
C19_EmptyRoomRemoved ==
    [][\A s \in Sockets :
          Disconnect(s) =>
             \A r \in RoomIds :
                (s \in adapter[r] /\ adapter'[r] = {}) => r \notin DOMAIN rooms']_vars

\* C20: a room leaves the registry only when no socket is in it any more; while a
\* socket remains (a spectator included) a disconnect keeps the room with its board,
\* turn and settings.
C20_BoundRoomKept ==
    [][\A r \in DOMAIN rooms :
          /\ r \notin DOMAIN rooms' => adapter'[r] = {}
          /\ ((\E s \in Sockets : Disconnect(s)) /\ adapter'[r] # {}) =>
                /\ r \in DOMAIN rooms'
                /\ rooms'[r].board = rooms[r].board
                /\ rooms'[r].turn = rooms[r].turn
                /\ rooms'[r].settings = rooms[r].settings]_vars

\* both players have left a game under way and the spectator alone keeps the room
C20_Witness ==
    \E r \in DOMAIN rooms, s \in Sockets :
       /\ adapter[r] = {s}
       /\ sdata[s].side = "spectator"
       /\ rooms[r].players.black = Null
       /\ rooms[r].players.white = Null
       /\ Pieces(rooms[r].board) > 0
       /\ rooms[r].turn = 2

----------------------------------------------------------------------------
(* Claims about the rotation and the board *)

\* it is Third's turn in the 3-player room `room` and no connection occupies Third
VacantThirdTurn(room) ==
    /\ room.settings.playerCount = 3
    /\ room.turn = 3
    /\ room.players.third \notin Sockets

\* C21: while it is Third's turn in a 3-player room whose Third seat is unoccupied, no
\* event other than a reset changes the room's board or moves the turn away from
\* Third (a join that takes the Third seat ends the situation).
C21_BlockedAtVacantThird ==
    [][\A r \in DOMAIN rooms \cap DOMAIN rooms' :
          VacantThirdTurn(rooms[r]) =>
             \/ \E s \in Sockets : ResetGame(s, r)
             \/ /\ rooms'[r].board = rooms[r].board
                /\ rooms'[r].turn = 3]_vars

\* C22: in a room that stays in the registry, a cell that holds a piece holds the
\* same piece after every step that is not a reset of that room.
C22_PiecesStay ==
    [][\A r \in DOMAIN rooms \cap DOMAIN rooms' :
          (~ \E s \in Sockets : ResetGame(s, r)) =>
             \A c \in Cells(rooms[r]) :
                rooms[r].board[c[2]][c[1]] # 0 =>
                   rooms'[r].board[c[2]][c[1]] = rooms[r].board[c[2]][c[1]]]_vars

\* a connection joined a room in which at least two pieces had been placed, after
\* another connection had left: the acknowledgment carries the board, and the pieces
\* are still there
C22_Witness ==
    /\ "A" \in DOMAIN rooms
    /\ Pieces(rooms["A"].board) >= 2
    /\ Len(outbox) = 2
    /\ outbox[1].event = "joined"
    /\ outbox[1].data.board = rooms["A"].board
    /\ \E s \in Sockets : conn[s] = "disconnected"

----------------------------------------------------------------------------
(* Claims about the settings *)

\* C23: the settings of every room in the registry are within the ranges the rules
\* allow: playerCount 2 or 3, winCondition 4, 5 or 6, boardSize 15 or 19.
C23_SettingsInRange ==
    \A r \in DOMAIN rooms :
       /\ rooms[r].settings.playerCount \in {2, 3}
       /\ rooms[r].settings.winCondition \in {4, 5, 6}
       /\ rooms[r].settings.boardSize \in {15, 19}

\* C24: no step changes the settings of a room that is in the registry before and
\* after the step.
C24_SettingsNeverChange ==
    [][\A r \in DOMAIN rooms \cap DOMAIN rooms' :
          rooms'[r].settings = rooms[r].settings]_vars

\* a room created with settings other than the defaults has had a placement and a
\* departure and still has the settings it was created with
C24_Witness ==
    \E r \in DOMAIN rooms :
       /\ rooms[r].settings.playerCount = 3
       /\ rooms[r].settings.boardSize # DefaultBoardSize
       /\ lastPlayer[r] # 0
       /\ \E s \in Sockets : conn[s] = "disconnected"

\* C25: the board of every room is a square grid with settings.boardSize rows and
\* settings.boardSize columns.
C25_BoardIsSquare ==
    \A r \in DOMAIN rooms :
       /\ Cardinality(DOMAIN rooms[r].board) = rooms[r].settings.boardSize
       /\ \A y \in DOMAIN rooms[r].board :
             Cardinality(DOMAIN rooms[r].board[y]) = rooms[r].settings.boardSize

----------------------------------------------------------------------------
(* Claims about room creation *)

\* C26: a room stored by POST /api/create-room has the requested settings, an
\* all-Empty board of the requested size, turn Black and no occupant; a room created
\* by the join to an unknown room id has the settings 2 players, 5 in a row, 15 x 15,
\* an all-Empty board, turn Black, and the joiner as Black and only occupant.
C26_FreshRoom ==
    [][/\ \A r \in CreateIds, pc \in PlayerCounts, bs \in BoardSizes :
             CreateRoom(r, pc, DefaultWinCondition, bs) =>
                /\ r \in DOMAIN rooms'
                /\ rooms'[r].settings =
                      [playerCount |-> pc, winCondition |-> DefaultWinCondition,
                       boardSize |-> bs]
                /\ AllEmpty(rooms'[r].board, bs)
                /\ rooms'[r].turn = 1
                /\ \A t \in 1 .. 3 : Holder(rooms'[r], t) \notin Sockets
       /\ \A s \in Sockets, r \in RoomIds \ DOMAIN rooms :
             JoinRoom(s, r) =>
                /\ r \in DOMAIN rooms'
                /\ rooms'[r].settings =
                      [playerCount |-> 2, winCondition |-> 5, boardSize |-> 15]
                /\ AllEmpty(rooms'[r].board, 15)
                /\ rooms'[r].turn = 1
                /\ rooms'[r].players.black = s
                /\ sdata'[s].side = "black"
                /\ \A t \in 2 .. 3 : Holder(rooms'[r], t) \notin Sockets]_vars

\* a join to an unknown room id has just created the room, next to a room that
\* POST /api/create-room stored and nobody joined yet
C26_Witness ==
    \E s \in Sockets :
       /\ DOMAIN rooms = {"A", "B"}
       /\ adapter["A"] = {}
       /\ rooms["A"].players.black = Null
       /\ adapter["B"] = {s}
       /\ rooms["B"].players.black = s
       /\ rooms["B"].settings.boardSize = 15
       /\ Len(outbox) = 2
       /\ outbox[1].event = "joined"
       /\ outbox[1].data.roomId = "B"

\* C27: POST /api/create-room stores the new room under an id no live room has: the
\* registry gains exactly that id and every room it held stays as it was.
C27_CreateKeepsRooms ==
    [][\A r \in CreateIds, pc \in PlayerCounts, bs \in BoardSizes :
          CreateRoom(r, pc, DefaultWinCondition, bs) =>
             /\ r \notin DOMAIN rooms
             /\ DOMAIN rooms' = DOMAIN rooms \cup {r}
             /\ \A q \in DOMAIN rooms : rooms'[q] = rooms[q]]_vars

\* a room has been created while another room, with an occupant, was live
C27_Witness ==
    /\ DOMAIN rooms = {"A", "B"}
    /\ outbox = << >>
    /\ adapter["A"] = {}
    /\ \A t \in 1 .. 3 : Holder(rooms["A"], t) \notin Sockets
    /\ rooms["B"].players.black \in Sockets
    /\ adapter["B"] # {}

----------------------------------------------------------------------------
(* Claims about the isolation of rooms *)

\* C28: a room of the registry changes (board, turn, occupants or settings) or leaves
\* the registry only in a step that is a join_room, place_piece or reset_game event
\* naming that room or the disconnect of a connection whose socket.data names it: no
\* event that names another room r, get_room_state included, and no disconnect of a
\* connection bound to another room r touches it.
C28_OtherRoomsUntouched ==
    [][\A q \in DOMAIN rooms :
          (q \notin DOMAIN rooms' \/ rooms'[q] # rooms[q]) =>
             \A s \in Sockets, r \in RoomIds \ {q} :
                ~ (\/ JoinRoom(s, r)
                   \/ \E x \in Coords, y \in Coords : PlacePiece(s, r, x, y)
                   \/ ResetGame(s, r)
                   \/ GetRoomState(s, r)
                   \/ Disconnect(s) /\ sdata[s].roomId = r)]_vars

\* room "B" has just been reset while room "A" holds a piece
C28_Witness ==
    /\ DOMAIN rooms = {"A", "B"}
    /\ Pieces(rooms["A"].board) > 0
    /\ Len(outbox) = 2
    /\ outbox[1].event = "reset_done"
    /\ outbox[1].to = adapter["B"]
    /\ adapter["B"] # adapter["A"]
    /\ rooms["B"].players.black \in Sockets

----------------------------------------------------------------------------
(* Claims about the events a handler emits *)

\* the key of room.players for a playing side
SeatKey(side) == IF side = "green" THEN "third" ELSE side

\* C29: join_room emits exactly two events, in this order: "joined", to the joining
\* socket alone, with the seat it was given and the room's board, turn and settings;
\* then "room_state", to every socket in the room, the joiner among them, with the
\* room's canonical view, in which the joiner's playing seat is occupied.
C29_JoinAckThenBroadcast ==
    [][\A s \in Sockets, r \in RoomIds :
          JoinRoom(s, r) =>
             /\ Len(outbox') = 2
             /\ outbox'[1] = [to |-> {s}, event |-> "joined",
                              data |-> [roomId |-> r, side |-> sdata'[s].side,
                                        board |-> rooms'[r].board,
                                        turn |-> rooms'[r].turn,
                                        settings |-> rooms'[r].settings]]
             /\ outbox'[2].event = "room_state"
             /\ s \in outbox'[2].to
             /\ \A c \in Sockets :
                   (c \in adapter'[r] \/ (conn'[c] = "connected" /\ sdata'[c].roomId = r))
                      => c \in outbox'[2].to
             /\ outbox'[2].data = CanonicalView(rooms'[r])
             /\ SeatOf(sdata'[s].side) # 0 =>
                   outbox'[2].data.players[SeatKey(sdata'[s].side)] = TRUE]_vars

\* a connection joined as Third a room in which two connections were seated; all
\* three received the broadcast
C29_Witness ==
    \E s \in Sockets :
       /\ Len(outbox) = 2
       /\ outbox[1].event = "joined"
       /\ outbox[1].to = {s}
       /\ outbox[1].data.side = "green"
       /\ outbox[2].to = Sockets
       /\ outbox[2].data.players.third = TRUE

\* C30: an accepted placement that completes a run of winCondition emits game_over
\* with the placing seat as winner and leaves the turn; one that completes no run
\* but fills the board emits game_over with a draw and leaves the turn; any other
\* emits no game_over and moves the turn to the next seat of the configured order.
C30_WinDrawRotate ==
    [][\A s \in Sockets, r \in DOMAIN rooms, x \in GameCoords, y \in GameCoords :
          (PlacePiece(s, r, x, y) /\ Changed(r) # {}) =>
             LET run == RunThrough(rooms'[r].board, x, y, rooms[r].settings.winCondition)
                 next == IF rooms[r].turn < rooms[r].settings.playerCount
                         THEN rooms[r].turn + 1 ELSE 1
             IN IF run
                THEN /\ DeclaredWin(sdata[s].side)'
                     /\ rooms'[r].turn = rooms[r].turn
                ELSE IF Full(rooms'[r])
                THEN /\ DeclaredDraw'
                     /\ rooms'[r].turn = rooms[r].turn
                ELSE /\ ~ EmitsGameOver
                     /\ rooms'[r].turn = next]_vars

\* a placement filled the board without completing a run: a draw was declared and
\* the turn is still the placing seat's
C30_Witness ==
    /\ "A" \in DOMAIN rooms
    /\ JustPlaced
    /\ DeclaredDraw
    /\ Full(rooms["A"])
    /\ rooms["A"].turn = lastPlayer["A"]

----------------------------------------------------------------------------
(* Claims about departed connections and the serial handling of events *)

\* C31: no room of the registry records a connection that has disconnected as the
\* occupant of a seat.
C31_NoDepartedOccupant ==
    \A s \in Sockets :
       conn[s] = "disconnected" =>
          \A r \in DOMAIN rooms, t \in 1 .. 3 : Holder(rooms[r], t) # s

\* C32: every step changes at most one cell of a room's board, unless it resets the
\* room; the cell was Empty and receives the seat whose turn it was before the step.
\* A place event on a cell that is no longer Empty changes no board.
C32_OnePieceForTheTurn ==
    [][\A r \in DOMAIN rooms \cap DOMAIN rooms' :
          /\ (~ \E s \in Sockets : ResetGame(s, r)) =>
                /\ Cardinality(Changed(r)) <= 1
                /\ \A c \in Changed(r) :
                      /\ rooms[r].board[c[2]][c[1]] = 0
                      /\ rooms'[r].board[c[2]][c[1]] = rooms[r].turn
          /\ \A s \in Sockets, c \in Cells(rooms[r]) :
                (rooms[r].board[c[2]][c[1]] # 0 /\ PlacePiece(s, r, c[1], c[2]))
                   => Changed(r) = {}]_vars

\* three connections have each placed one piece in a 3-player room and the turn is
\* Black's again
C32_Witness ==
    /\ "A" \in DOMAIN rooms
    /\ rooms["A"].settings.playerCount = 3
    /\ Pieces(rooms["A"].board) = 3
    /\ \A t \in 1 .. 3 : \E c \in Cells(rooms["A"]) : rooms["A"].board[c[2]][c[1]] = t
    /\ lastPlayer["A"] = 3
    /\ rooms["A"].turn = 1

----------------------------------------------------------------------------
(* Claims about invalid events *)

\* x2 / 2 is the index of a row or column of a grid of `size`
ValidIndex(x2, size) == x2 % 2 = 0 /\ (x2 \div 2) \in 0 .. size - 1

\* C33: a place event sent by the connection whose seat is to move, with coordinates
\* that are not a cell of the grid (negative, boardSize or more, or not an integer),
\* changes no room, no connection and no binding: the server carries on.
C33_InvalidCellRejected ==
    [][\A s \in Sockets, r \in DOMAIN rooms, x2 \in HalfCoords, y2 \in HalfCoords :
          (/\ SeatOf(sdata[s].side) = rooms[r].turn
           /\ ~ (/\ ValidIndex(x2, rooms[r].settings.boardSize)
                 /\ ValidIndex(y2, rooms[r].settings.boardSize))
           /\ PlacePieceHalves(s, r, x2, y2))
             => /\ rooms' = rooms
                /\ conn' = conn
                /\ sdata' = sdata
                /\ adapter' = adapter]_vars

\* C34: a step that changes anything of the server state or sends anything is not a
\* place_piece, reset_game or get_room_state event naming a room id that is not in
\* the registry: such an event changes nothing, sends nothing and creates no room.
C34_UnknownRoomIgnored ==
    [][(\/ rooms' # rooms
        \/ outbox' # << >>
        \/ sdata' # sdata
        \/ adapter' # adapter)
          => \A s \in Sockets, r \in RoomIds \ DOMAIN rooms :
                ~ (\/ \E x \in Coords, y \in Coords : PlacePiece(s, r, x, y)
                   \/ ResetGame(s, r)
                   \/ GetRoomState(s, r))]_vars

\* an event was ignored while room "B" does not exist and a game is under way in
\* room "A"
C34_Witness ==
    /\ DOMAIN rooms = {"A"}
    /\ adapter["B"] = {}
    /\ outbox = << >>
    /\ lastPlayer["A"] # 0
    /\ \A s \in Sockets : conn[s] = "connected"

----------------------------------------------------------------------------
(* Claims about leaving and taking over, resets, and the course of a game *)

\* C35: a disconnect leaves the board, turn and settings of every room that stays in
\* the registry as they were, and the disconnect of a connection whose seat is
\* spectator changes no occupant either; a join to an existing room leaves its board
\* and turn as they were and acknowledges with that board and turn.
C35_DisconnectOnlyOccupancy ==
    [][/\ \A s \in Sockets :
             Disconnect(s) =>
                \A r \in DOMAIN rooms \cap DOMAIN rooms' :
                   /\ rooms'[r].board = rooms[r].board
                   /\ rooms'[r].turn = rooms[r].turn
                   /\ rooms'[r].settings = rooms[r].settings
                   /\ sdata[s].side = "spectator" =>
                         rooms'[r].players = rooms[r].players
       /\ \A s \in Sockets, r \in DOMAIN rooms :
             JoinRoom(s, r) =>
                /\ rooms'[r].board = rooms[r].board
                /\ rooms'[r].turn = rooms[r].turn
                /\ outbox'[1].data.board = rooms[r].board
                /\ outbox'[1].data.turn = rooms[r].turn]_vars

\* C36: in every state, a reset_game event naming an existing room can be sent by any
\* live connection (a player whose turn it is not, a spectator, a connection that
\* never joined the room), during a game or after game over, and it resets the room:
\* the board becomes all-Empty, the turn Black, and reset_done is sent.
C36_ResetByAnyone ==
    \A s \in Sockets, r \in DOMAIN rooms :
       conn[s] = "connected" =>
          ENABLED (/\ ResetGame(s, r)
                   /\ AllEmpty(rooms'[r].board, rooms[r].settings.boardSize)
                   /\ rooms'[r].turn = 1
                   /\ Len(outbox') = 2
                   /\ outbox'[1].event = "reset_done")

\* the game of room "A" is over with Black the seat to move, and a live connection
\* that is a spectator or never joined the room can send the reset
C36_Witness ==
    /\ "A" \in DOMAIN rooms
    /\ gameOver["A"] # "none"
    /\ rooms["A"].turn = 1
    /\ \E s \in Sockets : conn[s] = "connected" /\ SeatOf(sdata[s].side) = 0

\* number of pieces of seat t on the board of `room`
PieceCount(room, t) ==
    Cardinality({c \in Cells(room) : room.board[c[2]][c[1]] = t})

\* the piece counts of the configured seats differ by at most one and the turn is the
\* seat at position (pieces on the board mod playerCount) of Black, White, Third
Balanced(room) ==
    LET pc == room.settings.playerCount
        total == Cardinality({c \in Cells(room) : room.board[c[2]][c[1]] # 0})
    IN /\ \A t \in 1 .. pc, u \in 1 .. pc :
             PieceCount(room, t) - PieceCount(room, u) <= 1
       /\ room.turn = (total % pc) + 1

\* C37 as stated: in every room in which no winning placement occurred since its
\* creation or last reset (no game_over, or a draw), the piece counts are balanced
\* and the turn is determined by the number of pieces.
C37_BalancedUnlessWon ==
    \A r \in DOMAIN rooms :
       gameOver[r] \in {"none", "draw"} => Balanced(rooms[r])

\* C37, amended: in every room in which no game_over (neither a win nor a draw) was
\* emitted since its creation or last reset, the piece counts are balanced and the
\* turn is determined by the number of pieces.
C37_BalancedWhileRunning ==
    \A r \in DOMAIN rooms :
       gameOver[r] = "none" => Balanced(rooms[r])

\* two pieces lie on the board of a 3-player room and it is Third's turn
C37_Witness ==
    \E r \in DOMAIN rooms :
       /\ gameOver[r] = "none"
       /\ rooms[r].settings.playerCount = 3
       /\ PieceCount(rooms[r], 1) = 1
       /\ PieceCount(rooms[r], 2) = 1
       /\ PieceCount(rooms[r], 3) = 0
       /\ rooms[r].turn = 3

\* the room under id r was created by POST /api/create-room with settings other than
\* 2 players, 5 in a row, 15 x 15, connections joined it and every one of them has
\* disconnected: no connection is in its socket.io room, and the seat it still
\* records for a connection shows that it was joined (only a disconnect takes a
\* connection out of a socket.io room)
Abandoned(r) ==
    /\ r \in DOMAIN rooms
    /\ rooms[r].settings # [playerCount |-> 2, winCondition |-> 5, boardSize |-> 15]
    /\ adapter[r] = {}
    /\ \E t \in 1 .. 3 : Holder(rooms[r], t) \in Sockets

\* C38: a join to the id of an explicitly created room with non-default settings
\* whose last connection has disconnected (and likewise a join to an id that is not
\* in the registry) yields a room with the settings 2 players, 5 in a row, 15 x 15,
\* an all-Empty 15 x 15 board and turn Black: neither the settings nor the board nor
\* the turn of the earlier room survive.
C38_NothingSurvives ==
    [][\A s \in Sockets, r \in RoomIds :
          (JoinRoom(s, r) /\ (r \notin DOMAIN rooms \/ Abandoned(r))) =>
             /\ rooms'[r].settings =
                   [playerCount |-> 2, winCondition |-> 5, boardSize |-> 15]
             /\ rooms'[r].board = [y \in 0 .. 14 |-> [x \in 0 .. 14 |-> 0]]
             /\ rooms'[r].turn = 1]_vars

\* C39: in a room that is not reset and whose seats stay as they are, a full board
\* means game_over was emitted, so a game has at most boardSize * boardSize
\* placements before its game_over; and if the required seats are all occupied and
\* the seat to move keeps placing, game_over is eventually emitted.
C39_GameEnds ==
    /\ [](\A r \in DOMAIN rooms : Full(rooms[r]) => gameOver[r] # "none")
    /\ \A r \in RoomIds :
          []((r \in DOMAIN rooms /\ AllSeated(rooms[r])) => <>(gameOver[r] # "none"))

\* a game between all the required seats has filled the board and ended in a draw
C39_Witness ==
    /\ "A" \in DOMAIN rooms
    /\ AllSeated(rooms["A"])
    /\ Pieces(rooms["A"].board) =
          rooms["A"].settings.boardSize * rooms["A"].settings.boardSize
    /\ gameOver["A"] = "draw"

====
